---- MODULE Spec2Model ----
(***************************************************************************)
(* Time Tracker (main.py, visualize.py).                                   *)
(*                                                                         *)
(* A Python str is a sequence of one-character strings, so that strip,     *)
(* lower, split and the %H:%M formatting are computed character by         *)
(* character.  A dict is a sequence of entries in insertion order.         *)
(*                                                                         *)
(*   SpecRecord   record_day and update_day sessions on one day's file     *)
(*   SpecTree     update_tree, print_tree and create_visualizations on     *)
(*                label sequences                                          *)
(*   SpecAnalyze  analyze_period on a records directory                    *)
(***************************************************************************)
EXTENDS Integers, Sequences, FiniteSets, TLC

VARIABLES
    stored,           \* records/<date>.json of the day: None or the saved dict
    op,               \* the handler that ran last
    loaded,           \* what load_schedule returned to that handler
    lines,            \* the lines input() returned to that handler, in order
    prompts,          \* the interval index of every prompt that handler issued
    out,              \* what that handler printed
    typed,            \* lines typed so far that are neither blank nor a sentinel
    task_tree,        \* the tree update_tree builds
    total_intervals,  \* the interval records counted
    fed,              \* the task lists passed to update_tree so far
    printed,          \* the lines print_tree printed
    print_total,      \* the parent_count print_tree was called with
    viz,              \* what create_visualizations computed: None or a record
    dir,              \* the records directory: file name -> saved dict
    today,            \* datetime.today(), as <<year, month, day>>
    period            \* the argument of analyze_period

vars == <<stored, op, loaded, lines, prompts, out, typed, task_tree,
          total_intervals, fed, printed, print_total, viz, dir, today, period>>

recVars == <<stored, loaded, lines, prompts, typed>>
treeVars == <<task_tree, total_intervals, fed, printed, print_total, viz>>
dirVars == <<dir, today, period>>

None == [none |-> TRUE]

\* ---------------------------------------------------------------- bounds

\* Lines that are neither blank nor a sentinel, over all sessions of a run.
MaxTyped == 2
\* Records of the day file that may exist before the first session.
PriorLen == 95
\* Task lists fed to update_tree.
MaxSeqs == 3
\* Files in the records directory.
MaxFiles == 2

\* ------------------------------------------------------------- constants

INTERVAL_MINUTES == 15
INTERVALS_PER_DAY == 96
RECORDS_DIR == "records"
START_TIME_STR == <<"0", "7", ":", "0", "0">>

\* ------------------------------------------------------------------- str

Whitespace == {" ", "\t", "\n"}

LowerChar(c) ==
    CASE c = "A" -> "a" [] c = "B" -> "b" [] c = "C" -> "c" [] c = "D" -> "d"
      [] c = "E" -> "e" [] c = "F" -> "f" [] c = "G" -> "g" [] c = "H" -> "h"
      [] c = "I" -> "i" [] c = "J" -> "j" [] c = "K" -> "k" [] c = "L" -> "l"
      [] c = "M" -> "m" [] c = "N" -> "n" [] c = "O" -> "o" [] c = "P" -> "p"
      [] c = "Q" -> "q" [] c = "R" -> "r" [] c = "S" -> "s" [] c = "T" -> "t"
      [] c = "U" -> "u" [] c = "V" -> "v" [] c = "W" -> "w" [] c = "X" -> "x"
      [] c = "Y" -> "y" [] c = "Z" -> "z" [] OTHER -> c

\* str.lower()
Lower(s) == [i \in 1..Len(s) |-> LowerChar(s[i])]

RECURSIVE LStrip(_)
LStrip(s) ==
    IF s # <<>> /\ Head(s) \in Whitespace THEN LStrip(Tail(s)) ELSE s

RECURSIVE RStrip(_)
RStrip(s) ==
    IF s # <<>> /\ s[Len(s)] \in Whitespace
    THEN RStrip(SubSeq(s, 1, Len(s) - 1)) ELSE s

\* str.strip()
Strip(s) == RStrip(LStrip(s))

\* str.split(sep): the pieces between the separators, empty pieces kept.
RECURSIVE SplitFrom(_, _, _)
SplitFrom(s, sep, cur) ==
    IF s = <<>> THEN <<cur>>
    ELSE IF Head(s) = sep THEN <<cur>> \o SplitFrom(Tail(s), sep, <<>>)
    ELSE SplitFrom(Tail(s), sep, Append(cur, Head(s)))

Split(s, sep) == SplitFrom(s, sep, <<>>)

Digits == <<"0", "1", "2", "3", "4", "5", "6", "7", "8", "9">>

DigitValue(c) == CHOOSE d \in 0..9 : Digits[d + 1] = c

\* int(s) of a string of decimal digits
RECURSIVE ParseInt(_)
ParseInt(s) ==
    IF s = <<>> THEN 0
    ELSE 10 * ParseInt(SubSeq(s, 1, Len(s) - 1)) + DigitValue(s[Len(s)])

\* strftime's %H, %M, %m, %d: two digits, zero-padded
Fmt2(n) == <<Digits[(n \div 10) + 1], Digits[(n % 10) + 1]>>

\* ----------------------------------------------------------- main.py 30-68

\* The start of the day, in minutes after the day's midnight.
get_day_start_datetime ==
    LET hm == Split(START_TIME_STR, ":")
    IN  ParseInt(hm[1]) * 60 + ParseInt(hm[2])

\* The (start, end) of every interval, in minutes after the day's midnight.
get_intervals_for_day(day_start) ==
    [k \in 1..INTERVALS_PER_DAY |->
        LET start == day_start + (k - 1) * INTERVAL_MINUTES
        IN  <<start, start + INTERVAL_MINUTES>>]

\* StrfHM with the hours counted on past midnight
StrfHM_nowrap(t) == Fmt2(t \div 60) \o <<":">> \o Fmt2(t % 60)

\* strftime('%H:%M') of a datetime given in minutes after the day's midnight
StrfHM(t) == Fmt2((t \div 60) % 24) \o <<":">> \o Fmt2(t % 60)

\* f"{start.strftime('%H:%M')}-{end.strftime('%H:%M')}"
TimeSlot(iv) == StrfHM(iv[1]) \o <<"-">> \o StrfHM(iv[2])

RECURSIVE NonEmptyStripped(_)
NonEmptyStripped(parts) ==
    IF parts = <<>> THEN <<>>
    ELSE LET s == Strip(Head(parts))
         IN  (IF s # <<>> THEN <<s>> ELSE <<>>) \o NonEmptyStripped(Tail(parts))

parse_task_input(task_str) == NonEmptyStripped(Split(task_str, ":"))

S_sleep == <<"s", "l", "e", "e", "p">>
S_exit == <<"e", "x", "i", "t">>

\* What a handler prints, one entry per print call.
Msg(text, arg) == [text |-> text, arg |-> arg]

\* strftime's %Y: four digits
Fmt4(n) == Fmt2(n \div 100) \o Fmt2(n % 100)

\* strftime("%Y-%m-%d") of the date <<year, month, day>>
StrfYMD(date) == Fmt4(date[1]) \o <<"-">> \o Fmt2(date[2]) \o <<"-">> \o Fmt2(date[3])

\* line 83: the name of the day that is recorded
date_str == StrfYMD(<<2024, 3, 2>>)

\* Python's truth value of what load_schedule returns: None is false, a dict
\* with keys is true.
Truthy(data) == data # None

\* load_schedule: the file's dict, or None when the file does not exist
load_schedule(file) == file

\* ---------------------------------------------------------- main.py 73-117

IsSleep(task_input) == Lower(task_input) = S_sleep

\* IsExit without .lower()
IsExit_exact(task_input) == task_input = S_exit

IsExit(task_input) == Lower(task_input) = S_exit

\* ResumeFrom starting over on an existing file
ResumeFrom_restart(existing_data) ==
    [schedule |-> <<>>, current_index |-> 0,
     out |-> IF Truthy(existing_data)
             THEN <<Msg("Resuming schedule from interval", 1)>> ELSE <<>>]

\* lines 84-91: the schedule to extend and the index to resume from
ResumeFrom(existing_data) ==
    IF Truthy(existing_data)
    THEN [schedule |-> existing_data.schedule,
          current_index |-> Len(existing_data.schedule),
          out |-> <<Msg("Resuming schedule from interval",
                        Len(existing_data.schedule) + 1)>>]
    ELSE [schedule |-> <<>>, current_index |-> 0, out |-> <<>>]

\* lines 104-107: for j in range(first, total_intervals): append sleep
SleepRange(schedule, first, intervals) ==
    schedule \o
    [k \in 1..(Len(intervals) - first) |->
        [time_slot |-> TimeSlot(intervals[first + k]), task |-> <<S_sleep>>]]

\* SleepFill with the remainder starting at idx, not idx + 1
SleepFill_again(schedule, idx, intervals) ==
    SleepRange(
        Append(schedule,
               [time_slot |-> TimeSlot(intervals[idx + 1]), task |-> <<S_sleep>>]),
        idx, intervals)

\* lines 103-107: the current interval and the remainder become sleep
SleepFill(schedule, idx, intervals) ==
    SleepRange(
        Append(schedule,
               [time_slot |-> TimeSlot(intervals[idx + 1]), task |-> <<S_sleep>>]),
        idx + 1, intervals)

\* lines 113-114
AppendTask(schedule, idx, intervals, task_input) ==
    Append(schedule,
           [time_slot |-> TimeSlot(intervals[idx + 1]),
            task |-> parse_task_input(task_input)])

\* lines 97-114: the loop from idx on, reading `rest`.  eof: input() was
\* called with no line left.
RECURSIVE RecordLoop(_, _, _, _, _, _)
RecordLoop(idx, schedule, intervals, rest, asked, msgs) ==
    IF idx >= Len(intervals)
    THEN [schedule |-> schedule, rest |-> rest, prompts |-> asked,
          out |-> msgs, eof |-> FALSE]
    ELSE IF rest = <<>>
    THEN [schedule |-> schedule, rest |-> rest, prompts |-> Append(asked, idx),
          out |-> msgs, eof |-> TRUE]
    ELSE LET task_input == Strip(Head(rest))
         IN  IF IsSleep(task_input)
             THEN [schedule |-> SleepFill(schedule, idx, intervals),
                   rest |-> Tail(rest), prompts |-> Append(asked, idx),
                   out |-> msgs, eof |-> FALSE]
             ELSE IF IsExit(task_input)
             THEN [schedule |-> schedule, rest |-> Tail(rest),
                   prompts |-> Append(asked, idx),
                   out |-> Append(msgs, Msg("Exiting. Progress saved.", 0)),
                   eof |-> FALSE]
             ELSE RecordLoop(idx + 1,
                             AppendTask(schedule, idx, intervals, task_input),
                             intervals, Tail(rest), Append(asked, idx), msgs)

\* A line record_day stores as a task: neither "sleep" nor "exit"
IsTask(line) == ~IsSleep(Strip(line)) /\ ~IsExit(Strip(line))

RECURSIVE CountTasks(_)
CountTasks(ls) ==
    IF ls = <<>> THEN 0
    ELSE (IF IsTask(Head(ls)) THEN 1 ELSE 0) + CountTasks(Tail(ls))

\* lines 93-94: the intervals of the day that is recorded
DayIntervals == get_intervals_for_day(get_day_start_datetime)

\* record_day(schedule_date) when input() returns exactly the lines of
\* `input`.  r, the loop's result, is bound once, as the one element of a set.
RecordDay(input) ==
    LET existing_data == load_schedule(stored)
        from == ResumeFrom(existing_data)
        intervals == DayIntervals
    IN  \E r \in {RecordLoop(from.current_index, from.schedule, intervals, input,
                             <<>>, from.out)} :
        /\ ~r.eof
        /\ r.rest = <<>>
        /\ stored' = [date |-> date_str, start_time |-> START_TIME_STR,
                      schedule |-> r.schedule]
        /\ op' = "record_day"
        /\ loaded' = existing_data
        /\ lines' = input
        /\ prompts' = r.prompts
        /\ out' = Append(r.out, Msg("Schedule saved", 0))
        /\ UNCHANGED <<treeVars, dirVars>>

\* --------------------------------------------------------- main.py 120-142

\* Answer without the test of line 139
Answer_always(item, line) ==
    [item EXCEPT !.task = parse_task_input(Strip(line))]

\* lines 138-140: one interval's answer
Answer(item, line) ==
    LET new_input == Strip(line)
    IN  IF new_input # <<>>
        THEN [item EXCEPT !.task = parse_task_input(new_input)]
        ELSE item

\* lines 133-140
UpdateLoop(schedule, answers) ==
    [k \in 1..Len(schedule) |-> Answer(schedule[k], answers[k])]

\* update_day(update_date_str) when input() returns exactly `answers`
UpdateDay(answers) ==
    LET data == load_schedule(stored)
    IN  /\ op' = "update_day"
        /\ loaded' = data
        /\ IF ~Truthy(data)
           THEN /\ answers = <<>>
                /\ out' = <<Msg("No schedule recorded for that date.", 0)>>
                /\ UNCHANGED stored
                /\ lines' = <<>>
                /\ prompts' = <<>>
           ELSE /\ Len(answers) = Len(data.schedule)
                /\ stored' = [data EXCEPT
                                 !.schedule = UpdateLoop(data.schedule, answers)]
                /\ out' = <<Msg("Updating schedule", 0), Msg("Schedule saved", 0)>>
                /\ lines' = answers
                /\ prompts' = [k \in 1..Len(data.schedule) |-> k - 1]
        /\ UNCHANGED <<treeVars, dirVars>>

\* ------------------------------------------------------- typed lines

L_work == <<"w", "o", "r", "k">>
L_work_code == <<" ", "W", "o", "r", "k", ":", " ", "c", "o", "d", "e", ":", " ">>
L_empty == <<>>
L_blank == <<" ", " ">>
L_sleep == <<"s", "l", "e", "e", "p">>
L_Sleep == <<" ", "S", "L", "e", "e", "P", " ">>
L_exit == <<"e", "x", "i", "t">>
L_Exit == <<"E", "x", "i", "t", " ">>
L_rest == <<"r", "e", "s", "t", ":", "N", "a", "p">>

\* What is typed at a record_day prompt
TaskLines == {L_work, L_work_code, L_empty}
SentinelLines == {L_sleep, L_Sleep, L_exit, L_Exit}

\* What is typed at an update_day prompt
BlankLines == {L_empty, L_blank}
EditLines == {L_rest, L_work_code, L_sleep}

RECURSIVE SeqsUpTo(_, _)
SeqsUpTo(S, n) ==
    IF n = 0 THEN {<<>>}
    ELSE LET shorter == SeqsUpTo(S, n - 1)
         IN  shorter \cup {Append(s, x) : s \in {t \in shorter : Len(t) = n - 1}, x \in S}

\* The prompts of an update_day session on n intervals that may get an
\* answer other than a blank line: the first two, the middle and the last.
EditPrompts(n) == {p \in {1, 2, n \div 2, n} : 1 <= p /\ p <= n}

\* The answers of an update_day session on n intervals: one blank line at
\* every prompt but those of `edits`, a sequence of <<prompt, line>> with
\* increasing prompts.
RECURSIVE EditsUpTo(_, _)
EditsUpTo(n, k) ==
    IF k = 0 THEN {<<>>}
    ELSE LET fewer == EditsUpTo(n, k - 1)
         IN  fewer \cup
             {Append(e, <<p, l>>) :
                 e \in {f \in fewer : Len(f) = k - 1},
                 p \in EditPrompts(n), l \in EditLines}

Increasing(e) == \A i \in 1..(Len(e) - 1) : e[i][1] < e[i + 1][1]

AnswersOf(n, blank, e) ==
    [k \in 1..n |->
        IF \E i \in 1..Len(e) : e[i][1] = k
        THEN e[CHOOSE i \in 1..Len(e) : e[i][1] = k][2]
        ELSE blank]

\* The day file before the first session: none, or what record_day saved
\* after PriorLen answers of "work" and "exit".
PriorFile ==
    [date |-> date_str, start_time |-> START_TIME_STR,
     schedule |-> [k \in 1..PriorLen |->
        [time_slot |-> TimeSlot(DayIntervals[k]),
         task |-> <<L_work>>]]]

TreeIdle ==
    /\ task_tree = <<>>
    /\ total_intervals = 0
    /\ fed = <<>>
    /\ printed = <<>>
    /\ print_total = 0
    /\ viz = None

DirIdle ==
    /\ dir = <<>>
    /\ today = <<2024, 3, 2>>
    /\ period = <<>>

RecIdle ==
    /\ stored = None
    /\ loaded = None
    /\ lines = <<>>
    /\ prompts = <<>>
    /\ typed = 0

InitRecord ==
    /\ stored \in {None, PriorFile}
    /\ op = "none"
    /\ loaded = None
    /\ lines = <<>>
    /\ prompts = <<>>
    /\ out = <<>>
    /\ typed = 0
    /\ TreeIdle
    /\ DirIdle

\* How the typing of one record_day session ends: with the last task, with a
\* sentinel, or with a sentinel and one more line.
Endings ==
    {<<>>} \cup {<<s>> : s \in SentinelLines}
           \cup {<<s, L_exit>> : s \in SentinelLines}

\* The lines typed in one record_day session, by the number of tasks in them
InputsByTasks ==
    [n \in 0..MaxTyped |->
        {t \o e : t \in {u \in SeqsUpTo(TaskLines, n) : Len(u) = n}, e \in Endings}]

RecordStep ==
    \E n \in 0..(MaxTyped - typed) :
    \E input \in InputsByTasks[n] :
        /\ typed' = typed + n
        /\ RecordDay(input)

UpdateStep ==
    \/ stored = None /\ UpdateDay(<<>>) /\ UNCHANGED typed
    \/ /\ stored # None
       /\ \E blank \in BlankLines :
          \E e \in {f \in EditsUpTo(Len(stored.schedule), MaxTyped - typed) :
                        Increasing(f)} :
             /\ typed' = typed + Len(e)
             /\ UpdateDay(AnswersOf(Len(stored.schedule), blank, e))

NextRecord == RecordStep \/ UpdateStep

SpecRecord == InitRecord /\ [][NextRecord]_vars

\* ------------------------------------------------------------------ dict

\* A dict: a sequence of [key, value] in insertion order.
HasKey(d, k) == \E i \in 1..Len(d) : d[i].key = k

KeyIndex(d, k) == CHOOSE i \in 1..Len(d) : d[i].key = k

\* d.get(k, default)
DictGet(d, k, default) == IF HasKey(d, k) THEN d[KeyIndex(d, k)].value ELSE default

\* d[k] = v
DictSet(d, k, v) ==
    IF HasKey(d, k)
    THEN [d EXCEPT ![KeyIndex(d, k)] = [key |-> k, value |-> v]]
    ELSE Append(d, [key |-> k, value |-> v])

RECURSIVE SumValues(_)
SumValues(d) == IF d = <<>> THEN 0 ELSE Head(d).value + SumValues(Tail(d))

\* --------------------------------------------------------- main.py 161-182

\* A tree is the dict {task: {"count": int, "children": tree}}: a sequence
\* of [key |-> task, value |-> [count, children]] in insertion order.
EmptyTree == <<>>

\* line 169
FoldLabel_cased(label) == Strip(label)

FoldLabel(label) == Lower(Strip(label))

RECURSIVE update_tree(_, _)
update_tree(tree, tasks) ==
    IF tasks = <<>> THEN tree
    ELSE LET task == FoldLabel(Head(tasks))
             present == IF HasKey(tree, task) THEN tree
                        ELSE DictSet(tree, task, [count |-> 0, children |-> EmptyTree])
             node == DictGet(present, task, None)
         IN  DictSet(present, task,
                     [count |-> node.count + 1,
                      children |-> update_tree(node.children, Tail(tasks))])

\* line 179: count / parent_count * 100, as the fraction num / den
Perc(count, parent_count) ==
    IF parent_count > 0
    THEN [num |-> count * 100, den |-> parent_count]
    ELSE [num |-> 0, den |-> 1]

\* ChildrenParentCount handing the caller's parent_count down
ChildrenParentCount_same(data, parent_count) == parent_count

\* line 182: the parent_count print_tree passes to the children of a node
ChildrenParentCount(data, parent_count) == data.count

\* One entry per printed line; `indent` counts the "    - " of the line and
\* `path` names the node the line is printed for.
RECURSIVE print_tree(_, _, _, _)
print_tree(tree, parent_count, indent, path) ==
    IF tree = <<>> THEN <<>>
    ELSE LET task == Head(tree).key
             data == Head(tree).value
             line == [indent |-> indent, task |-> task,
                      perc |-> Perc(data.count, parent_count),
                      count |-> data.count, path |-> Append(path, task)]
             below == IF data.children # <<>>
                      THEN print_tree(data.children,
                                      ChildrenParentCount(data, parent_count),
                                      indent + 1, Append(path, task))
                      ELSE <<>>
         IN  <<line>> \o below \o print_tree(Tail(tree), parent_count, indent, path)

\* ----------------------------------------------------- visualize.py 5-105

\* lines 16-19: result["sub"][parent_key][task] = data["count"]
parent_key(parent, task) == parent

RECURSIVE flatten_tree(_, _, _)
flatten_tree(tree, parent, result) ==
    IF tree = <<>> THEN result
    ELSE LET task == Head(tree).key
             data == Head(tree).value
             added ==
                 IF parent = <<>>
                 THEN [result EXCEPT !.main = DictSet(@, task, data.count)]
                 ELSE LET pk == parent_key(parent, task)
                      IN  [result EXCEPT !.sub =
                              DictSet(@, pk,
                                      DictSet(DictGet(@, pk, <<>>), task, data.count))]
             deeper == IF data.children # <<>>
                       THEN flatten_tree(data.children, task, added)
                       ELSE added
         IN  flatten_tree(Tail(tree), parent, deeper)

\* sorted(items, key=value, reverse=True): stable, largest first
RECURSIVE InsertDesc(_, _)
InsertDesc(sorted, item) ==
    IF sorted = <<>> THEN <<item>>
    ELSE IF Head(sorted).value >= item.value
         THEN <<Head(sorted)>> \o InsertDesc(Tail(sorted), item)
         ELSE <<item>> \o sorted

RECURSIVE SortedDesc(_)
SortedDesc(items) ==
    IF items = <<>> THEN <<>>
    ELSE InsertDesc(SortedDesc(SubSeq(items, 1, Len(items) - 1)), items[Len(items)])

S_other == <<"o", "t", "h", "e", "r">>

\* lines 50-55
MainPie(main_tasks, total) ==
    LET Big(e) == e.value * 100 >= total
        Small(e) == e.value * 100 < total
        filtered_tasks == SelectSeq(main_tasks, Big)
        other_count == SumValues(SelectSeq(main_tasks, Small))
    IN  IF other_count > 0 THEN DictSet(filtered_tasks, S_other, other_count)
        ELSE filtered_tasks

\* lines 69-70
TopCategories(main_tasks) ==
    LET NotSleep(e) == e.key # S_sleep
        ranked == SortedDesc(SelectSeq(main_tasks, NotSleep))
    IN  SubSeq(ranked, 1, IF Len(ranked) < 4 THEN Len(ranked) ELSE 4)

\* line 81
DirectCategoryCount(main_tasks, category, subtasks) ==
    DictGet(main_tasks, category, 0) - SumValues(subtasks)

\* lines 74-87: the pie chart of one top category
Breakdown(flat_data, category, total_count) ==
    LET subtasks == DictGet(flat_data.sub, category, <<>>)
        direct_category_count ==
            DirectCategoryCount(flat_data.main, category, subtasks)
    IN  [category |-> category, total_count |-> total_count,
         direct_category_count |-> direct_category_count,
         subtasks |-> SortedDesc(IF direct_category_count > 0
                                 THEN DictSet(subtasks, S_other, direct_category_count)
                                 ELSE subtasks)]

RECURSIVE Breakdowns(_, _)
Breakdowns(flat_data, top_categories) ==
    IF top_categories = <<>> THEN <<>>
    ELSE LET c == Head(top_categories)
         IN  (IF HasKey(flat_data.sub, c.key)
              THEN <<Breakdown(flat_data, c.key, c.value)>> ELSE <<>>)
             \o Breakdowns(flat_data, Tail(top_categories))

\* What create_visualizations computes and draws into time_analysis.png
create_visualizations(tree, total) ==
    LET flat_data == flatten_tree(tree, <<>>, [main |-> <<>>, sub |-> <<>>])
    IN  [flat_data |-> flat_data,
         main_pie |-> MainPie(flat_data.main, total),
         breakdowns |-> Breakdowns(flat_data, TopCategories(flat_data.main))]

\* ------------------------------------------------------------- SpecTree

T_a == <<"a">>
T_A == <<"A">>
T_b == <<"b">>
T_B == <<"B">>
T_c == <<"c">>

\* The task lists of the interval records that are aggregated
FeedSeqs ==
    {<<>>, <<T_a>>, <<T_A, T_b>>, <<T_a, T_B>>, <<T_a, T_c>>, <<T_b>>,
     <<T_a, T_b, T_c>>, <<S_sleep>>}

\* main.py 217-221: one interval record
Feed(tasks) ==
    /\ op \in {"none", "feed"}
    /\ Len(fed) < MaxSeqs
    /\ total_intervals' = total_intervals + 1
    /\ task_tree' = update_tree(task_tree, tasks)
    /\ fed' = Append(fed, tasks)
    /\ op' = "feed"
    /\ UNCHANGED <<printed, print_total, viz, out, recVars, dirVars>>

\* print_tree(task_tree, parent_count, indent="")
PrintTree(parent_count) ==
    /\ op # "none"
    /\ printed' = print_tree(task_tree, parent_count, 0, <<>>)
    /\ print_total' = parent_count
    /\ op' = "print_tree"
    /\ UNCHANGED <<task_tree, total_intervals, fed, viz, out, recVars, dirVars>>

\* create_visualizations(task_tree, total_intervals)
Visualize ==
    /\ op # "none"
    /\ total_intervals > 0
    /\ viz' = create_visualizations(task_tree, total_intervals)
    /\ out' = <<Msg("Visualizations have been saved to 'time_analysis.png'", 0)>>
    /\ op' = "create_visualizations"
    /\ UNCHANGED <<task_tree, total_intervals, fed, printed, print_total,
                   recVars, dirVars>>

InitTree ==
    /\ op = "none"
    /\ out = <<>>
    /\ TreeIdle
    /\ RecIdle
    /\ DirIdle

NextTree ==
    \/ \E tasks \in FeedSeqs : Feed(tasks)
    \/ \E parent_count \in 0..MaxSeqs : PrintTree(parent_count)
    \/ Visualize

SpecTree == InitTree /\ [][NextTree]_vars

\* ------------------------------------------------------------- datetime

IsLeap(y) == (y % 4 = 0) /\ ((y % 100 # 0) \/ (y % 400 = 0))

DaysInMonth(y, m) ==
    IF m = 2 THEN (IF IsLeap(y) THEN 29 ELSE 28)
    ELSE IF m \in {4, 6, 9, 11} THEN 30 ELSE 31

RECURSIVE DaysBeforeMonth(_, _)
DaysBeforeMonth(y, m) ==
    IF m <= 1 THEN 0 ELSE DaysBeforeMonth(y, m - 1) + DaysInMonth(y, m - 1)

\* date.toordinal(): the days since 0001-01-01, that day being 1
ToOrdinal(date) ==
    LET y == date[1] - 1
    IN  y * 365 + (y \div 4) - (y \div 100) + (y \div 400)
        + DaysBeforeMonth(date[1], date[2]) + date[3]

AllDigits(s) == \A i \in 1..Len(s) : \E d \in 1..10 : Digits[d] = s[i]

\* datetime.strptime(text, "%Y-%m-%d"): %Y is four digits, %m is 1..12 and %d
\* is 1..31 in one or two digits (%d also a blank and a digit), and the day
\* must exist in the month; anything else raises ValueError (ok = FALSE).
strptime(text) ==
    LET parts == Split(text, "-")
        Y == parts[1]
        m == parts[2]
        d == IF Len(parts[3]) = 2 /\ parts[3][1] = " " THEN Tail(parts[3]) ELSE parts[3]
        shaped ==
            /\ Len(parts) = 3
            /\ Len(Y) = 4 /\ AllDigits(Y)
            /\ Len(m) \in {1, 2} /\ AllDigits(m) /\ ParseInt(m) \in 1..12
            /\ Len(d) \in {1, 2} /\ AllDigits(d) /\ ParseInt(d) \in 1..31
            /\ (Len(parts[3]) = 2 /\ parts[3][1] = " ") => ParseInt(d) \in 1..9
        valid ==
            /\ shaped
            /\ ParseInt(Y) >= 1
            /\ ParseInt(d) <= DaysInMonth(ParseInt(Y), ParseInt(m))
    IN  IF valid
        THEN [ok |-> TRUE, date |-> <<ParseInt(Y), ParseInt(m), ParseInt(d)>>]
        ELSE [ok |-> FALSE, date |-> <<0, 0, 0>>]

\* --------------------------------------------------------- main.py 185-232

S_week == <<"w", "e", "e", "k">>
S_month == <<"m", "o", "n", "t", "h">>
S_json == <<".", "j", "s", "o", "n">>

\* str.endswith
EndsWith(s, suffix) ==
    Len(s) >= Len(suffix) /\ SubSeq(s, Len(s) - Len(suffix) + 1, Len(s)) = suffix

\* lines 216-221: the interval records of one schedule
RECURSIVE ScanSchedule(_, _)
ScanSchedule(schedule, acc) ==
    IF schedule = <<>> THEN acc
    ELSE ScanSchedule(Tail(schedule),
                      [total_intervals |-> acc.total_intervals + 1,
                       task_tree |-> update_tree(acc.task_tree, Head(schedule).task)])

\* InWindow with the first day of the window left out
InWindow_open(filename, start_ordinal, today_ordinal) ==
    /\ EndsWith(filename, S_json)
    /\ LET file_date == strptime(SubSeq(filename, 1, Len(filename) - 5))
       IN  /\ file_date.ok
           /\ start_ordinal < ToOrdinal(file_date.date)
           /\ ToOrdinal(file_date.date) <= today_ordinal

\* lines 206-211: whether the file called filename is read
InWindow(filename, start_ordinal, today_ordinal) ==
    /\ EndsWith(filename, S_json)
    /\ LET file_date == strptime(SubSeq(filename, 1, Len(filename) - 5))
       IN  /\ file_date.ok
           /\ start_ordinal <= ToOrdinal(file_date.date)
           /\ ToOrdinal(file_date.date) <= today_ordinal

\* lines 205-221: the files in the order os.listdir returned them
RECURSIVE ScanFiles(_, _, _, _, _)
ScanFiles(listing, files, start_ordinal, today_ordinal, acc) ==
    IF listing = <<>> THEN acc
    ELSE ScanFiles(Tail(listing), files, start_ordinal, today_ordinal,
                   IF InWindow(Head(listing), start_ordinal, today_ordinal)
                   THEN ScanSchedule(files[Head(listing)].schedule, acc)
                   ELSE acc)

\* lines 190-197: the days of the period, 0 for a period that is not known
PeriodDays(p) ==
    IF Lower(p) = S_week THEN 7 ELSE IF Lower(p) = S_month THEN 30 ELSE 0

\* NoScheduleData that lets an empty scan through
NoScheduleData_negative(total) == total < 0

\* line 223
NoScheduleData(total) == total = 0

\* analyze_period(p) when os.listdir returns `listing`.  Each local is bound
\* once, as the one element of a set.
AnalyzePeriod(p, listing) ==
    \E days \in {PeriodDays(p)} :
    \E today_ordinal \in {ToOrdinal(today)} :
    \E start_ordinal \in {today_ordinal - (days - 1)} :
    \E scan \in {ScanFiles(listing, dir, start_ordinal, today_ordinal,
                          [total_intervals |-> 0, task_tree |-> EmptyTree])} :
        /\ op' = "analyze_period"
        /\ period' = p
        /\ IF days = 0
           THEN /\ out' = <<Msg("Unknown period. Use 'week' or 'month'.", 0)>>
                /\ task_tree' = EmptyTree
                /\ total_intervals' = 0
                /\ printed' = <<>>
                /\ print_total' = 0
                /\ viz' = None
           ELSE /\ task_tree' = scan.task_tree
                /\ total_intervals' = scan.total_intervals
                /\ IF NoScheduleData(scan.total_intervals)
                   THEN /\ out' = <<Msg("No schedule data found for the specified period.", 0)>>
                        /\ printed' = <<>>
                        /\ print_total' = 0
                        /\ viz' = None
                   ELSE /\ printed' = print_tree(scan.task_tree, scan.total_intervals,
                                                 0, <<>>)
                        /\ print_total' = scan.total_intervals
                        /\ viz' = create_visualizations(scan.task_tree,
                                                        scan.total_intervals)
                        /\ out' = <<Msg("--- Analysis for the last days ---", days),
                                    Msg("----------------------------------------", 0),
                                    Msg("Visualizations have been saved to 'time_analysis.png'", 0)>>
        /\ UNCHANGED <<fed, recVars, dir, today>>

\* ---------------------------------------------------------- SpecAnalyze

\* The names in the records directory, for today = 2024-03-02: today, the
\* day after, the first day of the week's and of the month's window and the
\* day before each, a date that does not exist, a date without zero padding,
\* a name that is no date, and a file that is no .json file.
N_today == StrfYMD(<<2024, 3, 2>>) \o S_json
N_tomorrow == StrfYMD(<<2024, 3, 3>>) \o S_json
N_week_first == StrfYMD(<<2024, 2, 25>>) \o S_json
N_week_before == StrfYMD(<<2024, 2, 24>>) \o S_json
N_month_first == StrfYMD(<<2024, 2, 2>>) \o S_json
N_month_before == StrfYMD(<<2024, 2, 1>>) \o S_json
N_no_such_day == StrfYMD(<<2024, 2, 30>>) \o S_json
N_unpadded == <<"2", "0", "2", "4", "-", "3", "-", "1">> \o S_json
N_notes == <<"n", "o", "t", "e", "s">> \o S_json
N_text == StrfYMD(<<2024, 3, 2>>) \o <<".", "t", "x", "t">>

FileNames ==
    {N_today, N_tomorrow, N_week_first, N_week_before, N_month_first,
     N_month_before, N_no_such_day, N_unpadded, N_notes, N_text}

\* What record_day saves after the lines of `input`
SavedAfter(input) ==
    [date |-> date_str, start_time |-> START_TIME_STR,
     schedule |-> RecordLoop(0, <<>>, DayIntervals, input, <<>>, <<>>).schedule]

\* The file contents: no record, one record, and two of which one has no label
FileContents ==
    {SavedAfter(<<L_exit>>), SavedAfter(<<L_work, L_exit>>),
     SavedAfter(<<L_work_code, L_empty, L_exit>>)}

Directories ==
    UNION {[names -> FileContents] :
              names \in {n \in SUBSET FileNames : Cardinality(n) <= MaxFiles}}

\* The orders in which os.listdir may return the names
Listings(names) ==
    {l \in SeqsUpTo(names, Cardinality(names)) :
        /\ Len(l) = Cardinality(names)
        /\ \A i, j \in 1..Len(l) : i # j => l[i] # l[j]}

PeriodArgs ==
    {S_week, S_month, <<"W", "e", "e", "k">>, <<"y", "e", "a", "r">>}

InitAnalyze ==
    /\ dir \in Directories
    /\ today = <<2024, 3, 2>>
    /\ period = <<>>
    /\ op = "none"
    /\ out = <<>>
    /\ TreeIdle
    /\ RecIdle

NextAnalyze ==
    \E p \in PeriodArgs : \E listing \in Listings(DOMAIN dir) : AnalyzePeriod(p, listing)

SpecAnalyze == InitAnalyze /\ [][NextAnalyze]_vars

\* ------------------------------------------------- record_day, update_day

IsPrefix(p, s) == Len(p) <= Len(s) /\ SubSeq(s, 1, Len(p)) = p

\* The schedule the last handler loaded: empty when there was no file
LoadedSchedule == IF loaded = None THEN <<>> ELSE loaded.schedule

UpperChar(c) ==
    CASE c = "s" -> "S" [] c = "l" -> "L" [] c = "e" -> "E" [] c = "p" -> "P"
      [] c = "x" -> "X" [] c = "i" -> "I" [] c = "t" -> "T" [] OTHER -> c

\* The line is `word` in some letter case, between blanks
Spells(line, word) ==
    \E a \in 0..Len(line) :
        /\ a + Len(word) <= Len(line)
        /\ \A i \in 1..a : line[i] \in Whitespace
        /\ \A i \in (a + Len(word) + 1)..Len(line) : line[i] \in Whitespace
        /\ \A i \in 1..Len(word) :
              line[a + i] = word[i] \/ line[a + i] = UpperChar(word[i])

\* The record record_day stores for the line typed at interval index idx
Entered(idx, line) ==
    [time_slot |-> TimeSlot(DayIntervals[idx + 1]), task |-> parse_task_input(line)]

\* C1 as stated: a record_day session on a day with N saved records, for
\* every N in 0..96, asks its first prompt for interval N + 1 (index N) and
\* saves a schedule that starts with the N saved records, unchanged.
C1_FirstPromptAlways ==
    op = "record_day" =>
        /\ Len(LoadedSchedule) \in 0..INTERVALS_PER_DAY
        /\ prompts # <<>>
        /\ prompts[1] = Len(LoadedSchedule)
        /\ IsPrefix(LoadedSchedule, stored.schedule)

\* C1 amended: a record_day session on a day with N saved records asks its
\* first prompt for interval N + 1 (index N) when N < 96 and asks nothing
\* when N = 96; it announces the resumption at interval N + 1 when the file
\* exists; and the schedule it saves starts with the N saved records,
\* unchanged and in order.
C1_ResumeAppends ==
    op = "record_day" =>
        LET N == Len(LoadedSchedule)
        IN  /\ N \in 0..INTERVALS_PER_DAY
            /\ N < INTERVALS_PER_DAY => prompts # <<>> /\ prompts[1] = N
            /\ N = INTERVALS_PER_DAY => prompts = <<>>
            /\ loaded # None => out[1] = Msg("Resuming schedule from interval", N + 1)
            /\ IsPrefix(LoadedSchedule, stored.schedule)

\* A session that resumed a partly recorded day and added records to it
C1_Witness ==
    /\ op = "record_day"
    /\ loaded # None
    /\ Len(loaded.schedule) \in 1..(INTERVALS_PER_DAY - 1)
    /\ prompts[1] = Len(loaded.schedule)
    /\ Len(stored.schedule) > Len(loaded.schedule)

\* C2: "sleep" in any letter case at the prompt of interval K is the last
\* line the session reads; the saved schedule has 96 records, those from K
\* on are ["sleep"] at their own time slot, and those before K are the
\* loaded ones followed by the ones entered in this session.
C2_SleepFills ==
    op = "record_day" =>
        \A j \in 1..Len(lines) :
            Spells(lines[j], S_sleep) =>
                LET N == Len(LoadedSchedule)
                    K == N + j - 1
                IN  /\ j = Len(lines)
                    /\ Len(prompts) = j
                    /\ prompts[j] = K
                    /\ Len(stored.schedule) = INTERVALS_PER_DAY
                    /\ \A i \in (K + 1)..INTERVALS_PER_DAY :
                          stored.schedule[i] =
                              [time_slot |-> TimeSlot(DayIntervals[i]),
                               task |-> <<S_sleep>>]
                    /\ SubSeq(stored.schedule, 1, K) =
                          LoadedSchedule \o [i \in 1..(j - 1) |-> Entered(N + i - 1, lines[i])]
                    /\ out[Len(out)] = Msg("Schedule saved", 0)

\* A resumed session that ended with " SLeeP " after a task
C2_Witness ==
    /\ op = "record_day"
    /\ loaded # None
    /\ Len(loaded.schedule) >= 1
    /\ Len(lines) = 2
    /\ lines[2] = L_Sleep
    /\ Len(stored.schedule) = INTERVALS_PER_DAY

\* C3: "exit" in any letter case at the prompt of interval K is the last
\* line the session reads, adds no record for K, and the saved file holds
\* the loaded records followed by the ones entered before K.
C3_ExitSaves ==
    op = "record_day" =>
        \A j \in 1..Len(lines) :
            Spells(lines[j], S_exit) =>
                LET N == Len(LoadedSchedule)
                IN  /\ j = Len(lines)
                    /\ Len(prompts) = j
                    /\ prompts[j] = N + j - 1
                    /\ stored.schedule =
                          LoadedSchedule \o [i \in 1..(j - 1) |-> Entered(N + i - 1, lines[i])]
                    /\ out[Len(out)] = Msg("Schedule saved", 0)

\* A resumed session that ended with "Exit " after a task
C3_Witness ==
    /\ op = "record_day"
    /\ loaded # None
    /\ Len(loaded.schedule) >= 1
    /\ Len(lines) = 2
    /\ lines[2] = L_Exit
    /\ Len(stored.schedule) = Len(loaded.schedule) + 1

AllBlank(line) == \A i \in 1..Len(line) : line[i] \in Whitespace

\* C4: in update_day a line of blanks leaves the interval's labels as they
\* were, and a session of such lines only saves what it loaded.
C4_BlankKeeps ==
    (op = "update_day" /\ loaded # None) =>
        /\ Len(stored.schedule) = Len(loaded.schedule)
        /\ Len(lines) = Len(loaded.schedule)
        /\ \A k \in 1..Len(lines) :
              AllBlank(lines[k]) => stored.schedule[k] = loaded.schedule[k]
        /\ (\A k \in 1..Len(lines) : AllBlank(lines[k])) => stored = loaded

\* An update of a full day with tasks and sleep in it, every line blank
C4_Witness ==
    /\ op = "update_day"
    /\ loaded # None
    /\ Len(loaded.schedule) = INTERVALS_PER_DAY
    /\ loaded.schedule[1].task # <<>>
    /\ loaded.schedule[1].task # loaded.schedule[INTERVALS_PER_DAY].task
    /\ \A k \in 1..Len(lines) : lines[k] = L_blank
    /\ stored = loaded

\* The start and the end of a "HH:MM-HH:MM" time slot, in minutes of the day
SlotMinutes(time_slot) ==
    <<ParseInt(SubSeq(time_slot, 1, 2)) * 60 + ParseInt(SubSeq(time_slot, 4, 5)),
      ParseInt(SubSeq(time_slot, 7, 8)) * 60 + ParseInt(SubSeq(time_slot, 10, 11))>>

\* C9: the saved schedule has at most 96 records, the i-th being the i-th
\* quarter of an hour from 07:00, so that each slot starts where the one
\* before ends and none repeats; record_day on a day of 96 records asks
\* nothing and saves the schedule it loaded.
C9_SlotsInOrder ==
    /\ stored # None =>
          /\ Len(stored.schedule) <= 96
          /\ \A i \in 1..Len(stored.schedule) :
                Len(stored.schedule[i].time_slot) = 11
          /\ \E at \in {[i \in 1..Len(stored.schedule) |->
                            SlotMinutes(stored.schedule[i].time_slot)]} :
                /\ \A i \in 1..Len(at) :
                      at[i] = <<(7 * 60 + 15 * (i - 1)) % 1440, (7 * 60 + 15 * i) % 1440>>
                /\ \A i \in 1..(Len(at) - 1) : at[i][2] = at[i + 1][1]
                /\ \A i, j \in 1..Len(at) : i # j => at[i] # at[j]
    /\ (op = "record_day" /\ Len(LoadedSchedule) = 96) =>
          /\ prompts = <<>>
          /\ lines = <<>>
          /\ stored.schedule = loaded.schedule

\* A full day built by typing, sleep and an update, then recorded again
C9_Witness ==
    /\ op = "record_day"
    /\ Len(LoadedSchedule) = 96
    /\ prompts = <<>>
    /\ \E i \in 1..95 : /\ stored.schedule[i].task # <<S_sleep>>
                        /\ stored.schedule[i].task # <<L_work>>
                        /\ stored.schedule[i + 1].task = <<S_sleep>>

\* ------------------------------------------------- update_tree, print_tree

RECURSIVE CountAt(_, _)
\* The count of the node of `tree` at `path`, 0 when there is no such node
CountAt(tree, path) ==
    IF path = <<>> \/ ~HasKey(tree, Head(path)) THEN 0
    ELSE LET node == DictGet(tree, Head(path), None)
         IN  IF Len(path) = 1 THEN node.count
             ELSE CountAt(node.children, Tail(path))

RECURSIVE TreePaths(_)
\* The paths of the nodes of `tree`
TreePaths(tree) ==
    IF tree = <<>> THEN {}
    ELSE LET e == Head(tree)
         IN  {<<e.key>>}
             \cup {<<e.key>> \o p : p \in TreePaths(e.value.children)}
             \cup TreePaths(Tail(tree))

\* A task list with each label stripped and in lower case
Folded(tasks) == [i \in 1..Len(tasks) |-> Lower(Strip(tasks[i]))]

Prefixes(s) == {SubSeq(s, 1, k) : k \in 1..Len(s)}

\* C5: after update_tree has been applied to the task lists of `fed`, from
\* an empty tree, the node at a path p of folded labels has as its count
\* the number of lists of which p is a prefix, and the tree has a node only
\* where that number is at least 1 (an empty list makes no node).
C5_PrefixCounts ==
    LET seqs == [i \in 1..Len(fed) |-> Folded(fed[i])]
        Having(p) == {i \in 1..Len(fed) : IsPrefix(p, seqs[i])}
    IN  /\ \A p \in TreePaths(task_tree) :
              /\ CountAt(task_tree, p) = Cardinality(Having(p))
              /\ Cardinality(Having(p)) >= 1
        /\ \A i \in 1..Len(fed) : \A p \in Prefixes(seqs[i]) :
              /\ p \in TreePaths(task_tree)
              /\ CountAt(task_tree, p) = Cardinality(Having(p))
        /\ \A i, j \in 1..Len(task_tree) :
              i # j => task_tree[i].key # task_tree[j].key

\* ["A","b"], ["a","B"] and ["a","c"] give a = 3, a/b = 2 and a/c = 1
C5_Witness ==
    /\ fed = <<<<T_A, T_b>>, <<T_a, T_B>>, <<T_a, T_c>>>>
    /\ CountAt(task_tree, <<T_a>>) = 3
    /\ CountAt(task_tree, <<T_a, T_b>>) = 2
    /\ CountAt(task_tree, <<T_a, T_c>>) = 1
    /\ TreePaths(task_tree) = {<<T_a>>, <<T_a, T_b>>, <<T_a, T_c>>}

\* C6: print_tree prints one line per node; the percentage on the line of a
\* root node is count / total * 100 and on the line of a deeper node
\* count / (count of its parent) * 100, and it is 0 when that denominator
\* is 0.
C6_Percentages ==
    /\ op = "print_tree" =>
          {printed[k].path : k \in 1..Len(printed)} = TreePaths(task_tree)
    /\ \A k \in 1..Len(printed) :
          LET line == printed[k]
              ref == IF Len(line.path) = 1 THEN print_total
                     ELSE CountAt(task_tree, SubSeq(line.path, 1, Len(line.path) - 1))
          IN  /\ line.count = CountAt(task_tree, line.path)
              /\ line.indent = Len(line.path) - 1
              /\ line.perc.den > 0
              /\ IF ref = 0 THEN line.perc.num = 0
                 ELSE line.perc.num * ref = line.count * 100 * line.perc.den

\* A print with a root node under the total and a child under its parent
C6_Witness ==
    /\ op = "print_tree"
    /\ print_total = 3
    /\ \E k \in 1..Len(printed) :
          /\ Len(printed[k].path) = 1
          /\ printed[k].perc = [num |-> 200, den |-> 3]
    /\ \E k \in 1..Len(printed) :
          /\ Len(printed[k].path) = 2
          /\ printed[k].perc = [num |-> 100, den |-> 2]

\* ---------------------------------------------- flatten_tree, breakdowns

\* C10: for every root category c, flat_data["sub"][c] holds the direct
\* children of the root node c with their counts, and every breakdown's
\* direct_category_count is at least 0 and is the number of task lists
\* that are [c] alone.
C10_SubIsDirectChildren ==
    viz # None =>
        /\ \A i \in 1..Len(task_tree) :
              LET c == task_tree[i].key
                  children == task_tree[i].value.children
                  sub == DictGet(viz.flat_data.sub, c, <<>>)
              IN  /\ {[key |-> sub[k].key, value |-> sub[k].value] : k \in 1..Len(sub)}
                       = {[key |-> children[k].key, value |-> children[k].value.count] :
                             k \in 1..Len(children)}
                  /\ SumValues(sub) <= task_tree[i].value.count
        /\ \A k \in 1..Len(viz.breakdowns) :
              LET b == viz.breakdowns[k]
              IN  /\ b.direct_category_count >= 0
                  /\ b.direct_category_count =
                        Cardinality({i \in 1..Len(fed) : Folded(fed[i]) = <<b.category>>})

\* ------------------------------------------------------- analyze_period

\* The ways to write the number n of a month or a day
NumberTexts(n) == {Fmt2(n)} \cup (IF n < 10 THEN {<<Digits[n + 1]>>} ELSE {})

\* The calendar days that the file name `name` is the date of
NameDates(name) ==
    {dt \in {2023, 2024} \X (1..12) \X (1..31) :
        /\ dt[3] <= DaysInMonth(dt[1], dt[2])
        /\ \E mt \in NumberTexts(dt[2]) : \E dd \in NumberTexts(dt[3]) :
              name = Fmt4(dt[1]) \o <<"-">> \o mt \o <<"-">> \o dd \o S_json}

\* The day numbers of those days, name by name
OrdinalsOfName == [name \in FileNames |-> {ToOrdinal(dt) : dt \in NameDates(name)}]

\* The days the claim gives the period
ClaimDays ==
    IF period \in {S_week, <<"W", "e", "e", "k">>} THEN 7
    ELSE IF period = S_month THEN 30 ELSE 0

\* The files of the directory that are named by a day of the window
WindowNames ==
    {name \in DOMAIN dir :
        \E last \in {ToOrdinal(today)} : \E d \in OrdinalsOfName[name] :
            last - (ClaimDays - 1) <= d /\ d <= last}

RECURSIVE RecordCountIn(_)
RecordCountIn(names) ==
    IF names = {} THEN 0
    ELSE LET n == CHOOSE x \in names : TRUE
         IN  Len(dir[n].schedule) + RecordCountIn(names \ {n})

RECURSIVE PrefixCountIn(_, _)
\* The interval records of the files `names` whose task list starts with p
PrefixCountIn(names, p) ==
    IF names = {} THEN 0
    ELSE LET n == CHOOSE x \in names : TRUE
         IN  Cardinality({i \in 1..Len(dir[n].schedule) :
                             IsPrefix(p, Folded(dir[n].schedule[i].task))})
             + PrefixCountIn(names \ {n}, p)

NoDataMessage == <<Msg("No schedule data found for the specified period.", 0)>>

\* C7: when the files of the window hold no interval record, and so when
\* the directory is empty, analyze_period prints the no-data message and
\* nothing else: no tree is printed and create_visualizations is not called.
C7_NoData ==
    (op = "analyze_period" /\ ClaimDays > 0 /\ RecordCountIn(WindowNames) = 0) =>
        /\ out = NoDataMessage
        /\ printed = <<>>
        /\ viz = None

\* A month's analysis of a directory whose records are all outside it
C7_Witness ==
    /\ op = "analyze_period"
    /\ period = S_month
    /\ DOMAIN dir = {N_month_before, N_tomorrow}
    /\ dir[N_month_before].schedule # <<>>
    /\ dir[N_tomorrow].schedule # <<>>
    /\ out = NoDataMessage
    /\ viz = None

====
